---------------------------- MODULE Spec2Model ----------------------------
(***************************************************************************)
(* A model of the WebAnts crawling engine: the frontier scheduler          *)
(* (webants/scheduler.py), the request ordering (webants/libs/request.py), *)
(* URL normalisation (webants/utils/url.py), the downloader's retry path   *)
(* (webants/downloader.py), the circuit breaker and the spider driver      *)
(* (webants/spider.py).                                                    *)
(*                                                                         *)
(* The program runs on one asyncio event loop: a coroutine runs without    *)
(* interruption from one suspension point (an await that really suspends)  *)
(* to the next, so each action below is one such stretch of a handler.     *)
(***************************************************************************)
EXTENDS Integers, Sequences, FiniteSets, TLC

(***************************************************************************)
(* Bounds of the model.                                                    *)
(***************************************************************************)
\* Number of schedule_request calls the callers make (one more under
\* SpecMore).
NumCalls == 2
\* Priorities of the requests are drawn from 1..MaxPrio.
MaxPrio == 2
\* The positive value of max_requests tried (0, "unlimited", is tried too).
MaxRequests == 1
\* The positive value of max_queue_size tried (0, "unbounded", is tried too).
MaxQueueSize == 1
\* max_domain_concurrent of the scheduler.
MaxDomainConcurrent == 1
\* Number of requests the downloader is given.
NumRequests == 2
\* Number of start_worker tasks.
NumWorkers == 1
\* Largest request.retries a request starts with.
MaxRetries == 1
\* failure_threshold and recovery_timeout of the circuit breaker.
FailureThreshold == 2
RecoveryTimeout == 1
\* The clock runs MaxTime ticks; at most MaxInflight requests of the host are
\* in flight at once; failures are recorded up to MaxFailures in a row.
MaxTime == 4
MaxInflight == 2
MaxFailures == 3
\* Largest number of seeds start_requests yields.
NumSeeds == 2

(***************************************************************************)
(* URLs.  A URL is the record of the parts urlparse splits it into; the    *)
(* query is the list of (key, value) pairs parse_qsl reads, keys and       *)
(* values being small numbers and value 0 the blank value.  port 0 stands  *)
(* for "no port in the netloc".                                            *)
(***************************************************************************)
Url(scheme, auth, host, port, path, query, fragment) ==
    [scheme |-> scheme, auth |-> auth, host |-> host, port |-> port,
     path |-> path, query |-> query, fragment |-> fragment]

\* Tuple comparison of two (key, value) pairs, as sorted() compares them.
PairLe(p, q) == p[1] < q[1] \/ (p[1] = q[1] /\ p[2] <= q[2])

RECURSIVE InsertSorted(_, _)
InsertSorted(s, x) ==
    IF s = <<>> THEN <<x>>
    ELSE IF PairLe(Head(s), x) THEN <<Head(s)>> \o InsertSorted(Tail(s), x)
    ELSE <<x>> \o s

\* sorted(qsl): stable sort of the pairs.
RECURSIVE SortedQsl(_)
SortedQsl(s) ==
    IF s = <<>> THEN <<>>
    ELSE InsertSorted(SortedQsl(SubSeq(s, 1, Len(s) - 1)), s[Len(s)])

\* parse_qsl(query, keep_blank_values): pairs with a blank value are dropped
\* unless keep_blank_values.
ParseQsl(query, keep_blank_values) ==
    SelectSeq(query, LAMBDA p : keep_blank_values \/ p[2] # 0)

DefaultPort(scheme) ==
    IF scheme = "http" THEN 80 ELSE IF scheme = "https" THEN 443 ELSE 0

\* The paths of the model that begin with "//", and the netloc and path
\* urlparse reads where a URL string goes on with such a path right after
\* "scheme:".
PathAuthority ==
    [p \in {"//a:80/p"} |->
       [auth |-> "", host |-> "a", port |-> 80, path |-> "/p"]]

\* The netlocs of the model that still end in a port once their port was
\* removed ("a:80" of "a:80:80"), and the host and port such a netloc has.
NetlocPort == [h \in {"a:80"} |-> [host |-> "a", port |-> 80]]

\* urlparse(urlunparse(parts)).  urlunparse writes "//" + netloc before the
\* path unless the netloc is empty and the path begins with "//"; the string
\* is then "scheme:" + path, and urlparse reads the head of that path as
\* the netloc.  A netloc that ends in a port is read with that port.
Reparsed(url) ==
    IF url.auth = "" /\ url.host = "" /\ url.port = 0
       /\ url.path \in DOMAIN PathAuthority
    THEN [url EXCEPT !.auth = PathAuthority[url.path].auth,
                     !.host = PathAuthority[url.path].host,
                     !.port = PathAuthority[url.path].port,
                     !.path = PathAuthority[url.path].path]
    ELSE IF url.port = 0 /\ url.host \in DOMAIN NetlocPort
    THEN [url EXCEPT !.host = NetlocPort[url.host].host,
                     !.port = NetlocPort[url.host].port]
    ELSE url

\* normalize_url, lines 94-114; the value is the URL as urlparse reads the
\* string returned.
normalize_url(url, keep_auth, keep_fragments, keep_blank_values, keep_default_port, sort_query) ==
    Reparsed(
      [url EXCEPT
         !.query = IF sort_query
                   THEN SortedQsl(ParseQsl(url.query, keep_blank_values))
                   ELSE url.query,
         !.fragment = IF keep_fragments THEN url.fragment ELSE "",
         !.port = IF ~keep_default_port /\ url.port # 0
                     /\ url.port = DefaultPort(url.scheme)
                  THEN 0 ELSE url.port,
         !.auth = IF keep_auth THEN url.auth ELSE ""])

\* Request.__init__ with normalize = False: self.url = url.
RequestUrl_Raw(raw) == raw

\* Request.__init__ with normalize = True: self.url = normalize_url(url).
RequestUrl(raw) == normalize_url(raw, FALSE, FALSE, TRUE, FALSE, TRUE)

\* Scheduler._get_domain: the netloc without its port.
GetDomain(url) == url.host

\* The raw URLs callers build requests from: one page of host a written in
\* three ways (query order, explicit default port) and one page of host b.
RawUrls ==
    { Url("http", "", "a", 0, "/p", << <<2, 1>>, <<1, 2>> >>, ""),
      Url("http", "", "a", 0, "/p", << <<1, 2>>, <<2, 1>> >>, ""),
      Url("http", "", "a", 80, "/p", << <<1, 2>>, <<2, 1>> >>, ""),
      Url("http", "", "b", 0, "/p", <<>>, "") }

Urls == { RequestUrl(raw) : raw \in RawUrls }

\* The URLs normalize_url is tried on: with and without user information,
\* host, port (one or two), a path that begins with "//", blank values, a
\* fragment; each as urlparse reads it (a netloc "a:80" is host a, port 80).
UrlInputs ==
    { Url(scheme, auth, host, port, path, query, fragment) :
        scheme \in {"http", "https"}, auth \in {"", "u"},
        host \in {"", "a", "a:80"},
        port \in {0, 80, 443}, path \in {"/p", "//a:80/p"},
        query \in {<<>>, << <<2, 1>>, <<1, 0>> >>}, fragment \in {"", "f"} }
    \ [scheme : {"http", "https"}, auth : {"", "u"},
       host : DOMAIN NetlocPort, port : {0}, path : {"/p", "//a:80/p"},
       query : {<<>>, << <<2, 1>>, <<1, 0>> >>}, fragment : {"", "f"}]

\* keep_auth, keep_fragments, keep_blank_values, keep_default_port and
\* sort_query of a normalize_url call.
Options == [keep_auth : BOOLEAN, keep_fragments : BOOLEAN,
            keep_blank_values : BOOLEAN, keep_default_port : BOOLEAN,
            sort_query : BOOLEAN]
Hosts == { GetDomain(u) : u \in Urls }
NoUrl == Url("", "", "", 0, "", <<>>, "")
Priorities == 1..MaxPrio
\* The schedule_request calls of a run: the callers' and, next to a spider,
\* those of its retry_failed.
MaxCalls == NumCalls + 2
Calls == 1..MaxCalls


(***************************************************************************)
(* State.                                                                  *)
(***************************************************************************)
VARIABLES
    \* Scheduler configuration (Scheduler.__init__).
    max_requests, max_queue_size,
    \* Scheduler state.
    seen_urls,          \* set of URLs
    stats,              \* total_scheduled, total_filtered, active_domains,
                        \* current_requests
    domain_stats,       \* host -> [total_requests, active_requests]
    domain_semaphores,  \* host -> [value, waiters]
    request_queue,      \* the heap of asyncio.PriorityQueue
    putters,            \* schedule_request calls blocked on a full queue
    \* The schedule_request calls and the Request each one carries.
    ncalls,             \* calls started so far
    call,               \* call -> [pc, url, taken]
    \* History, read by the properties only.
    bypass,             \* URLs some call carried with dont_filter = True
    nput,               \* number of items ever put on request_queue
    prev_got,           \* priority the last get_request returned, 0 when an
                        \* item was put since
    snap,               \* counters at the start of a call that runs alone
    \* The downloader, its requests and its tasks.
    dl,
    \* The circuit breaker of one host (Spider._domain_circuits[host]).
    circuit,            \* [failures, last_failure_time, state]
    now,                \* time.time()
    inflight,           \* requests let through whose outcome is not recorded
    \* History, read by the properties only.
    opened_at,          \* when the circuit last went to "open", 0 if never
    trial,              \* "pending": a half-open trial was let through and
                        \* no outcome has been recorded since; "success",
                        \* "failure": the outcome last recorded in half-open
                        \* state; "none" otherwise
    allowed,            \* what the last allow_request returned
    \* The Request each schedule_request call carries.
    req,                \* call -> the arguments of Request(...): [url,
                        \* method, body, callback, errback]
    \* The Spider object, its start() coroutine and process_request tasks.
    spider,
    \* A URL that normalize_url is applied to, and again to the result.
    norm                \* [url, options, n, once]

schedVars == <<max_requests, max_queue_size, seen_urls, stats, domain_stats,
               domain_semaphores, request_queue, putters, ncalls, call,
               bypass, nput, prev_got, snap>>

cbVars == <<circuit, now, inflight, opened_at, trial, allowed>>

restVars == <<req, spider, norm>>

\* What the scheduler's own steps leave alone.
notSched == <<dl, cbVars, restVars>>

vars == <<schedVars, dl, cbVars, restVars>>

NoSnap == [request |-> 0, stage |-> "none", active |-> 0, current |-> 0,
           permits |-> 0]

(***************************************************************************)
(* The priority queue: heapq on (priority, request) tuples.  An item also  *)
(* carries seq, its rank among the items ever put, which the program does  *)
(* not have and no operator below reads.                                   *)
(***************************************************************************)
\* Request.__lt__: by priority only.
RequestLt(a, b) == a.priority < b.priority

\* Tuple comparison of two queue items (priority, request): the first
\* components decide unless equal; then the requests are compared, with ==
\* first (an object is not less than itself) and then with Request.__lt__.
ItemLt_Reversed(x, y) == x.priority > y.priority

ItemLt(x, y) ==
    \/ x.priority < y.priority
    \/ /\ x.priority = y.priority
       /\ x.request # y.request
       /\ RequestLt(x.request, y.request)

\* heapq._siftdown(heap, startpos, pos) with newitem = heap[pos]; positions
\* are 0-based as in the library, the sequence is 1-based.
RECURSIVE SiftDown(_, _, _, _)
SiftDown(heap, startpos, pos, newitem) ==
    IF pos > startpos
    THEN LET parentpos == (pos - 1) \div 2
             parent == heap[parentpos + 1]
         IN  IF ItemLt(newitem, parent)
             THEN SiftDown([heap EXCEPT ![pos + 1] = parent],
                           startpos, parentpos, newitem)
             ELSE [heap EXCEPT ![pos + 1] = newitem]
    ELSE [heap EXCEPT ![pos + 1] = newitem]

\* heapq._siftup(heap, pos): bubble the smaller child up until a leaf is
\* reached, then sift the item down from there.
RECURSIVE SiftUp(_, _, _, _)
SiftUp(heap, startpos, pos, newitem) ==
    LET endpos == Len(heap)
        childpos == 2 * pos + 1
        rightpos == childpos + 1
        smaller == IF rightpos < endpos
                      /\ ~ItemLt(heap[childpos + 1], heap[rightpos + 1])
                   THEN rightpos ELSE childpos
    IN  IF childpos < endpos
        THEN SiftUp([heap EXCEPT ![pos + 1] = heap[smaller + 1]],
                    startpos, smaller, newitem)
        ELSE SiftDown([heap EXCEPT ![pos + 1] = newitem],
                      startpos, pos, newitem)

\* heapq.heappush.
HeapPush(heap, item) ==
    SiftDown(Append(heap, item), 0, Len(heap), item)

\* heapq.heappop: the item returned ...
HeapTop(heap) == heap[1]

\* ... and the heap left.
HeapPop(heap) ==
    LET lastelt == heap[Len(heap)]
        rest == SubSeq(heap, 1, Len(heap) - 1)
    IN  IF rest = <<>> THEN rest
        ELSE SiftUp([rest EXCEPT ![1] = lastelt], 0, 0, lastelt)

\* asyncio.Queue.full: maxsize <= 0 is an unbounded queue.
Full(heap) == max_queue_size > 0 /\ Len(heap) >= max_queue_size

(***************************************************************************)
(* Initial state: Scheduler.__init__.                                      *)
(***************************************************************************)
SchedInit ==
    /\ max_requests \in {0, MaxRequests}
    /\ max_queue_size \in {0, MaxQueueSize}
    /\ seen_urls = {}
    /\ stats = [total_scheduled |-> 0, total_filtered |-> 0,
                active_domains |-> 0, current_requests |-> 0]
    /\ domain_stats = <<>>
    /\ domain_semaphores = <<>>
    /\ request_queue = <<>>
    /\ putters = <<>>
    /\ ncalls = 0
    /\ call = [r \in Calls |-> [pc |-> "new", url |-> NoUrl, taken |-> FALSE]]
    /\ bypass = {}
    /\ nput = 0
    /\ prev_got = 0
    /\ snap = NoSnap

\* The snapshot survives only the steps of the call it belongs to.
KeepSnap(r) == IF snap.request = r THEN snap ELSE NoSnap

\* asyncio.Semaphore.acquire returns at once when a permit is free and no
\* earlier caller waits for one.
CanAcquire_Always(sem) == TRUE

CanAcquire(sem) == sem.value > 0 /\ sem.waiters = <<>>

\* schedule_request, lines 95-97: a duplicate is counted and refused.
FilterDuplicate_NoCount(r) ==
    /\ call' = [call EXCEPT ![r].pc = "returned_false"]
    /\ UNCHANGED stats

FilterDuplicate(r) ==
    /\ stats' = [stats EXCEPT !.total_filtered = @ + 1]
    /\ call' = [call EXCEPT ![r].pc = "returned_false"]

(***************************************************************************)
(* schedule_request, lines 90-150: the limit check, the duplicate filter,  *)
(* the lazy creation of the domain state and the acquire of the domain     *)
(* semaphore, up to the sleep (or up to the wait for a permit).  The       *)
(* delay statistics (avg, min, max delay) only size the sleep and are left *)
(* out.                                                                    *)
(***************************************************************************)
schedule_request(raw, dont_filter) ==
    LET r == ncalls + 1
        url == RequestUrl(raw)
        domain == GetDomain(url)
        known == domain \in DOMAIN domain_stats
        sem == IF known THEN domain_semaphores[domain]
               ELSE [value |-> MaxDomainConcurrent, waiters |-> <<>>]
        free == CanAcquire(sem)
    IN
    /\ ncalls' = r
    /\ IF max_requests # 0 /\ stats.total_scheduled >= max_requests
       THEN /\ call' = [call EXCEPT ![r].pc = "returned_false"]
            /\ snap' = NoSnap
            /\ UNCHANGED <<seen_urls, stats, domain_stats, domain_semaphores,
                           bypass>>
       ELSE IF url \in seen_urls /\ ~dont_filter
       THEN /\ FilterDuplicate(r)
            /\ snap' = NoSnap
            /\ UNCHANGED <<seen_urls, domain_stats, domain_semaphores, bypass>>
       ELSE /\ domain_stats' =
                 IF known THEN domain_stats
                 ELSE [d \in DOMAIN domain_stats \cup {domain} |->
                         IF d = domain
                         THEN [total_requests |-> 0, active_requests |-> 0]
                         ELSE domain_stats[d]]
            /\ stats' = IF known THEN stats
                        ELSE [stats EXCEPT !.active_domains = @ + 1]
            /\ domain_semaphores' =
                 [d \in DOMAIN domain_semaphores \cup {domain} |->
                    IF d = domain
                    THEN IF free
                         THEN [sem EXCEPT !.value = @ - 1]
                         ELSE [sem EXCEPT !.waiters = Append(@, r)]
                    ELSE domain_semaphores[d]]
            /\ call' = [call EXCEPT ![r] =
                          [pc |-> IF free THEN "sleep" ELSE "acquire",
                           url |-> url, taken |-> FALSE]]
            /\ bypass' = IF dont_filter THEN bypass \cup {url} ELSE bypass
            /\ snap' = [request |-> r, stage |-> "started",
                        active |-> domain_stats'[domain].active_requests,
                        current |-> stats.current_requests,
                        permits |-> sem.value]
            /\ UNCHANGED seen_urls
    /\ UNCHANGED <<max_requests, max_queue_size, request_queue, putters,
                   nput, prev_got>>

\* A caller calls schedule_request.
ScheduleRequest(raw, dont_filter) ==
    /\ ncalls < NumCalls
    /\ schedule_request(raw, dont_filter)

\* The call past NumCalls.
ScheduleRequestMore(raw, dont_filter) ==
    /\ ncalls = NumCalls
    /\ schedule_request(raw, dont_filter)

\* request_queue.put_nowait((request.priority, request)).  The priority of
\* the request, which nothing reads before, is drawn here.
Enqueue(r, priority) ==
    /\ request_queue' =
         HeapPush(request_queue,
                  [priority |-> priority,
                   request |-> [id |-> r, priority |-> priority],
                   seq |-> nput + 1])
    /\ nput' = nput + 1
    /\ prev_got' = 0

(***************************************************************************)
(* schedule_request, lines 152-164: after the sleep the statistics are     *)
(* updated and the request is put on the queue; put() suspends while the   *)
(* queue is full.                                                          *)
(***************************************************************************)
Admit(r, priority) ==
    LET url == call[r].url
        domain == GetDomain(url)
    IN
    /\ call[r].pc = "sleep"
    /\ seen_urls' = seen_urls \cup {url}
    /\ stats' = [stats EXCEPT !.total_scheduled = @ + 1,
                              !.current_requests = @ + 1]
    /\ domain_stats' = [domain_stats EXCEPT
                          ![domain].total_requests = @ + 1,
                          ![domain].active_requests = @ + 1]
    /\ IF Full(request_queue)
       THEN /\ priority = 1
            /\ putters' = Append(putters, r)
            /\ call' = [call EXCEPT ![r].pc = "put"]
            /\ UNCHANGED <<request_queue, nput, prev_got>>
       ELSE /\ Enqueue(r, priority)
            /\ call' = [call EXCEPT ![r].pc = "admitted"]
            /\ UNCHANGED putters
    /\ snap' = KeepSnap(r)
    /\ UNCHANGED <<max_requests, max_queue_size, domain_semaphores, ncalls,
                   bypass>>

(***************************************************************************)
(* A call woken from put() looks at the queue again: it puts its request   *)
(* and returns True, or waits again when another call took the room.       *)
(***************************************************************************)
PutResume(r, priority) ==
    /\ call[r].pc = "put_woken"
    /\ IF Full(request_queue)
       THEN /\ priority = 1
            /\ putters' = Append(putters, r)
            /\ call' = [call EXCEPT ![r].pc = "put"]
            /\ UNCHANGED <<request_queue, nput, prev_got>>
       ELSE /\ Enqueue(r, priority)
            /\ call' = [call EXCEPT ![r].pc = "admitted"]
            /\ UNCHANGED putters
    /\ snap' = KeepSnap(r)
    /\ UNCHANGED <<max_requests, max_queue_size, seen_urls, stats,
                   domain_stats, domain_semaphores, ncalls, bypass>>

(***************************************************************************)
(* get_request: takes the top of the heap (it waits while the queue is     *)
(* empty); Queue.get wakes the first call blocked in put().                *)
(***************************************************************************)
GetRequest ==
    LET item == HeapTop(request_queue)
    IN
    /\ request_queue # <<>>
    /\ request_queue' = HeapPop(request_queue)
    /\ prev_got' = item.priority
    /\ call' = [c \in Calls |->
                 IF c = item.request.id THEN [call[c] EXCEPT !.taken = TRUE]
                 ELSE IF putters # <<>> /\ c = Head(putters)
                 THEN [call[c] EXCEPT !.pc = "put_woken"]
                 ELSE call[c]]
    /\ putters' = IF putters # <<>> THEN Tail(putters) ELSE putters
    /\ snap' = NoSnap
    /\ UNCHANGED <<max_requests, max_queue_size, seen_urls, stats,
                   domain_stats, domain_semaphores, ncalls, bypass, nput>>

(***************************************************************************)
(* asyncio.Semaphore.release: the permit goes to the first waiter, which   *)
(* then runs on to its sleep, or back to the semaphore.                    *)
(***************************************************************************)
Release_Kept(sem) == sem

Release(sem) ==
    IF sem.waiters # <<>>
    THEN [sem EXCEPT !.waiters = Tail(@)]
    ELSE [sem EXCEPT !.value = @ + 1]

(***************************************************************************)
(* request_completed.                                                      *)
(***************************************************************************)
request_completed(r, pc) ==
    LET domain == GetDomain(call[r].url)
        sem == domain_semaphores[domain]
    IN
    /\ domain_stats' = [domain_stats EXCEPT ![domain].active_requests = @ - 1]
    /\ stats' = [stats EXCEPT !.current_requests = @ - 1]
    /\ domain_semaphores' = [domain_semaphores EXCEPT ![domain] = Release(sem)]
    /\ call' = [c \in Calls |->
                 IF c = r THEN [call[c] EXCEPT !.pc = pc]
                 ELSE IF sem.waiters # <<>> /\ c = Head(sem.waiters)
                 THEN [call[c] EXCEPT !.pc = "sleep"]
                 ELSE call[c]]
    /\ snap' = IF snap.request = r /\ snap.stage = "started"
               THEN [snap EXCEPT !.stage = "completed"] ELSE NoSnap
    /\ UNCHANGED <<max_requests, max_queue_size, seen_urls, request_queue,
                   putters, ncalls, bypass, nput, prev_got>>

\* The caller reports a request schedule_request admitted, once.
RequestCompleted(r) ==
    /\ call[r].pc = "admitted"
    /\ request_completed(r, "completed")

\* A caller that reports the same request a second time.
RequestCompletedAgain(r) ==
    /\ call[r].pc = "completed"
    /\ request_completed(r, "completed_twice")

SchedNext ==
    /\ \/ \E raw \in RawUrls, dont_filter \in BOOLEAN :
             ScheduleRequest(raw, dont_filter)
       \/ \E r \in Calls, priority \in Priorities : Admit(r, priority)
       \/ \E r \in Calls, priority \in Priorities : PutResume(r, priority)
       \/ GetRequest
       \/ \E r \in Calls : RequestCompleted(r)
    /\ UNCHANGED notSched

(***************************************************************************)
(* The downloader (webants/downloader.py).  dl is the Downloader object    *)
(* with the requests it is given and the coroutines that run its code:     *)
(*   maxsize, request_queue, unfinished   the asyncio.PriorityQueue        *)
(*   response_queue, stats, retry_requests, sem   the Downloader's fields  *)
(*   request   request -> [url, retries, priority, delay], and for the     *)
(*             properties: dispatched (it was sent at least once),         *)
(*             requeued (times it was put back on the queue for a retry),  *)
(*             budget (the retries it was made with) and fetches (times    *)
(*             it was sent)                                                *)
(*   join      where start_downloader is: not called, waiting in           *)
(*             request_queue.join(), or returned                           *)
(*   task      task -> [pc, request, ret]: task 0 is a caller that awaits  *)
(*             fetch_retry itself, the others run start_worker; ret is     *)
(*             what the task's last fetch_retry returned                   *)
(***************************************************************************)
\* _retry_request, line 279: request.priority += 10.
RetryPriorityStep == 10

\* Request.__init__: priority = 0.
DefaultPriority == 0

\* fetch_retry, line 357: the status of the response for a request whose
\* retries are exhausted.
RetryExhaustedStatus == 600

RETRY_CODES ==
    (403 :> [max_retries |-> 5, backoff_factor |-> 2]) @@
    (404 :> [max_retries |-> 5, backoff_factor |-> 2]) @@
    (408 :> [max_retries |-> 3, backoff_factor |-> 2]) @@
    (420 :> [max_retries |-> 3, backoff_factor |-> 2]) @@
    (429 :> [max_retries |-> 3, backoff_factor |-> 5]) @@
    (500 :> [max_retries |-> 3, backoff_factor |-> 2]) @@
    (502 :> [max_retries |-> 3, backoff_factor |-> 2]) @@
    (503 :> [max_retries |-> 3, backoff_factor |-> 2]) @@
    (504 :> [max_retries |-> 3, backoff_factor |-> 2])

\* What client.request can do: answer with a status, or raise (0).
TransportError == 0
\* client.request raises httpx.TooManyRedirects: the redirect limit was
\* exceeded.
TooManyRedirects == 1
\* What the except clauses of _fetch catch (lines 245 and 257): every
\* httpx.HTTPError, TooManyRedirects among them, and any other Exception.
Raises == {TransportError, TooManyRedirects}
Statuses == {200, 404, 429, 500}
Outcomes == Statuses \cup {TransportError}

\* request.callback: absent, returning None, or raising.  A callback that
\* returns the response it was given behaves as an absent one here.
Callbacks == {"none", "nothing", "raises"}

Requests == 1..NumRequests
Caller == 0
Workers == 1..NumWorkers
Tasks == {Caller} \cup Workers
\* start_downloader: many = self.concurrency workers.
Concurrency == NumWorkers

\* What fetch_retry gave back: nothing yet, None, a response (request and
\* retry_exhausted are its extensions, request 0 when absent), an exception.
Pending == [kind |-> "pending", status |-> 0, request |-> 0,
            retry_exhausted |-> FALSE]
ReturnNone == [kind |-> "none", status |-> 0, request |-> 0,
               retry_exhausted |-> FALSE]
Raised == [kind |-> "raised", status |-> 0, request |-> 0,
           retry_exhausted |-> FALSE]
Response(status, r, exhausted) ==
    [kind |-> "response", status |-> status, request |-> r,
     retry_exhausted |-> exhausted]

\* request.delay = retry_delay * factor ** exponent; factor 0 is delay 0.
NoDelay == [factor |-> 0, exponent |-> 0]
NoRequest == [url |-> NoUrl, retries |-> 0, priority |-> DefaultPriority,
              delay |-> NoDelay, dispatched |-> FALSE, requeued |-> 0,
              budget |-> 0, fetches |-> 0]

\* Downloader.__init__ on a request queue of the given maxsize.
Downloader(maxsize) ==
    [maxsize |-> maxsize,
     request_queue |-> <<>>,
     unfinished |-> 0,
     join |-> "new",
     nput |-> 0,
     response_queue |-> <<>>,
     stats |-> [total_requests |-> 0, successful_requests |-> 0,
                failed_requests |-> 0, retry_requests |-> 0,
                total_retries |-> 0],
     retry_requests |-> {},
     sem |-> [value |-> Concurrency, waiters |-> <<>>],
     nreq |-> 0,
     request |-> [r \in Requests |-> NoRequest],
     task |-> [p \in Tasks |->
                 [pc |-> IF p = Caller THEN "idle" ELSE "new",
                  method |-> "fetch_retry", request |-> 0,
                  ret |-> Pending]]]

DlFull(d) == d.maxsize > 0 /\ Len(d.request_queue) >= d.maxsize

\* request_queue.put_nowait((request.priority, request)) with room.
PutNowait(d, r) ==
    [d EXCEPT !.request_queue =
                 HeapPush(@, [priority |-> d.request[r].priority,
                              request |-> [id |-> r,
                                           priority |-> d.request[r].priority],
                              seq |-> d.nput + 1]),
              !.nput = @ + 1,
              !.unfinished = @ + 1]

\* The task's fetch_retry returns ret (or raises, ret = Raised).
Return(d, p, ret) == [d EXCEPT !.task[p].ret = ret]

\* _retry_request, lines 274-287.  put_nowait raises QueueFull on a full
\* queue, after the request and the statistics were updated.
retry_request(d, p) ==
    LET r == d.task[p].request
        url == d.request[r].url
        d1 == [d EXCEPT !.stats.total_retries = @ + 1,
                        !.request[r].retries = @ - 1,
                        !.request[r].priority = @ + RetryPriorityStep,
                        !.stats.retry_requests =
                            IF url \in d.retry_requests THEN @ ELSE @ + 1,
                        !.retry_requests = @ \cup {url}]
    IN IF DlFull(d1) THEN Return(d1, p, Raised)
       ELSE Return(PutNowait([d1 EXCEPT !.request[r].requeued = @ + 1], r),
                   p, ReturnNone)

\* _fetch that counts failures only.
fetch_NoSuccess(d, outcome) ==
    IF outcome \in Raises
    THEN [d EXCEPT !.stats.failed_requests = @ + 1]
    ELSE d

\* _fetch that takes a counted failure back when a later exchange
\* succeeds.
fetch_Recount(d, outcome) ==
    IF outcome \in Raises
    THEN [d EXCEPT !.stats.failed_requests = @ + 1]
    ELSE IF outcome \notin DOMAIN RETRY_CODES
    THEN [d EXCEPT !.stats.successful_requests = @ + 1,
                   !.stats.failed_requests = IF @ > 0 THEN @ - 1 ELSE @]
    ELSE d

\* _fetch, lines 226-261, from the answer of client.request on.
fetch(d, outcome) ==
    IF outcome \in Raises
    THEN [d EXCEPT !.stats.failed_requests = @ + 1]
    ELSE IF outcome \notin DOMAIN RETRY_CODES
    THEN [d EXCEPT !.stats.successful_requests = @ + 1]
    ELSE d

\* fetch_retry, lines 305-359, from the answer of client.request on.
fetch_retry(d, p, outcome, cb) ==
    LET r == d.task[p].request
        d1 == fetch(d, outcome)
    IN IF outcome \notin Raises
       THEN IF outcome \in DOMAIN RETRY_CODES
            THEN IF d1.request[r].retries > 0
                 THEN LET retry_config == RETRY_CODES[outcome]
                      IN retry_request(
                           [d1 EXCEPT !.request[r].delay =
                              [factor |-> retry_config.backoff_factor,
                               exponent |-> retry_config.max_retries
                                            - d1.request[r].retries]], p)
                 ELSE Return(d1, p, ReturnNone)
            ELSE IF cb = "none"
            THEN Return(d1, p, Response(outcome, 0, FALSE))
            ELSE IF cb = "nothing" THEN Return(d1, p, ReturnNone)
            ELSE Return(d1, p, Raised)
       ELSE IF d1.request[r].retries > 0
            THEN retry_request(d1, p)
            ELSE Return([d1 EXCEPT !.stats.failed_requests = @ + 1], p,
                        Response(RetryExhaustedStatus, r, TRUE))

\* Downloader.fetch, lines 371-378, from the answer of client.request on:
\* no retry; the response goes to the callback, an exception gives the
\* status-600 response with the request as its only extension.
downloader_fetch(d, p, outcome, cb) ==
    LET r == d.task[p].request
        d1 == fetch(d, outcome)
    IN IF outcome \notin Raises
       THEN IF cb = "none"
            THEN Return(d1, p, Response(outcome, 0, FALSE))
            ELSE IF cb = "nothing" THEN Return(d1, p, ReturnNone)
            ELSE Return(d1, p, Raised)
       ELSE Return(d1, p, Response(RetryExhaustedStatus, r, FALSE))

\* self.sem is released: the first waiting worker, if any, gets the permit
\* and goes on to _next_request.
ReleaseSem(d) ==
    [d EXCEPT !.sem = Release(@),
              !.task = IF d.sem.waiters = <<>> THEN @
                       ELSE [@ EXCEPT ![Head(d.sem.waiters)].pc = "get"]]

\* start_worker, line 385: _next_request takes the head of the queue, or
\* waits for an item.
next_request(d, w) ==
    IF d.request_queue = <<>>
    THEN [d EXCEPT !.task[w].pc = "get", !.task[w].request = 0]
    ELSE [d EXCEPT !.request_queue = HeapPop(@),
                   !.task[w].pc = "sleep",
                   !.task[w].request = HeapTop(d.request_queue).request.id]

\* start_worker, lines 383-385: the top of the loop.
loop_top(d, w) ==
    IF CanAcquire(d.sem)
    THEN next_request([d EXCEPT !.sem.value = @ - 1], w)
    ELSE [d EXCEPT !.sem.waiters = Append(@, w),
                   !.task[w].pc = "acquire", !.task[w].request = 0]

\* start_worker that goes round its loop without task_done().
worker_loop_NoTaskDone(d, w) ==
    IF d.task[w].ret.kind = "raised"
    THEN ReleaseSem([d EXCEPT !.task[w].pc = "crashed"])
    ELSE LET d1 == IF d.task[w].ret.kind = "response"
                   THEN [d EXCEPT !.response_queue =
                                     Append(@, d.task[w].ret)]
                   ELSE d
         IN loop_top(ReleaseSem(d1), w)

\* start_worker, lines 386-392, after fetch_retry: an exception leaves the
\* loop through "async with" and ends the task; otherwise the response is
\* passed on, the queue item is marked done and the loop goes round.
worker_loop(d, w) ==
    IF d.task[w].ret.kind = "raised"
    THEN ReleaseSem([d EXCEPT !.task[w].pc = "crashed"])
    ELSE LET d1 == IF d.task[w].ret.kind = "response"
                   THEN [d EXCEPT !.response_queue =
                                     Append(@, d.task[w].ret)]
                   ELSE d
         IN loop_top(ReleaseSem([d1 EXCEPT !.unfinished = @ - 1]), w)

\* A client makes a Request and puts it on the request queue.
Submit(url, retries) ==
    LET r == dl.nreq + 1
    IN /\ dl.nreq < NumRequests
       /\ ~DlFull(dl)
       /\ dl' = PutNowait([dl EXCEPT !.nreq = r,
                                     !.request[r].url = url,
                                     !.request[r].retries = retries,
                                     !.request[r].budget = retries], r)
       /\ UNCHANGED <<schedVars, cbVars, restVars>>

\* The caller makes a Request and awaits fetch_retry(request).
DirectCall(url, retries) ==
    LET r == dl.nreq + 1
    IN /\ dl.nreq < NumRequests
       /\ dl.task[Caller].pc = "idle"
       /\ dl' = [dl EXCEPT !.nreq = r,
                           !.request[r].url = url,
                           !.request[r].retries = retries,
                           !.request[r].budget = retries,
                           !.task[Caller].pc = "sleep",
                           !.task[Caller].method = "fetch_retry",
                           !.task[Caller].request = r]
       /\ UNCHANGED <<schedVars, cbVars, restVars>>

\* The caller makes a Request and awaits fetch(request).
DirectFetch(url, retries) ==
    LET r == dl.nreq + 1
    IN /\ dl.nreq < NumRequests
       /\ dl.task[Caller].pc = "idle"
       /\ dl' = [dl EXCEPT !.nreq = r,
                           !.request[r].url = url,
                           !.request[r].retries = retries,
                           !.request[r].budget = retries,
                           !.task[Caller].pc = "sleep",
                           !.task[Caller].method = "fetch",
                           !.task[Caller].request = r]
       /\ UNCHANGED <<schedVars, cbVars, restVars>>

\* start_downloader creates the worker tasks; a worker begins.
WorkerStart(w) ==
    /\ dl.task[w].pc = "new"
    /\ dl' = loop_top(dl, w)
    /\ UNCHANGED <<schedVars, cbVars, restVars>>

\* A worker waiting in _next_request gets an item.
WorkerNext(w) ==
    /\ dl.task[w].pc = "get"
    /\ dl.request_queue # <<>>
    /\ dl' = next_request(dl, w)
    /\ UNCHANGED <<schedVars, cbVars, restVars>>

\* _fetch, lines 217-229: after the sleep, the request is counted unless
\* its URL was retried before, and sent.
FetchStart(p) ==
    /\ dl.task[p].pc = "sleep"
    /\ dl' = [dl EXCEPT !.stats.total_requests =
                           IF dl.request[dl.task[p].request].url
                                \in dl.retry_requests
                           THEN @ ELSE @ + 1,
                        !.request[dl.task[p].request].dispatched = TRUE,
                        !.request[dl.task[p].request].fetches = @ + 1,
                        !.task[p].pc = "request"]
    /\ UNCHANGED <<schedVars, cbVars, restVars>>

\* client.request answers: the rest of fetch_retry (or of fetch, when that
\* is what the caller awaits) and, in a worker, the loop up to its next
\* suspension.
FetchDone(p, outcome, cb) ==
    /\ dl.task[p].pc = "request"
    /\ LET d == IF dl.task[p].method = "fetch"
                THEN downloader_fetch(dl, p, outcome, cb)
                ELSE fetch_retry(dl, p, outcome, cb)
       IN dl' = IF p = Caller
                THEN [d EXCEPT !.task[p].pc = "idle"]
                ELSE worker_loop(d, p)
    /\ UNCHANGED <<schedVars, cbVars, restVars>>

DlNext ==
    \/ \E url \in Urls, retries \in 0..MaxRetries : Submit(url, retries)
    \/ \E url \in Urls, retries \in 0..MaxRetries : DirectCall(url, retries)
    \/ \E w \in Workers : WorkerStart(w)
    \/ \E w \in Workers : WorkerNext(w)
    \/ \E p \in Tasks : FetchStart(p)
    \/ \E p \in Tasks, outcome \in Outcomes, cb \in Callbacks :
          FetchDone(p, outcome, cb)

(***************************************************************************)
(* The circuit breaker (webants/spider.py, class CircuitBreaker).  The     *)
(* spider keeps one per host and the breakers do not touch each other, so  *)
(* one is modelled.  Time is a discrete clock; the breaker is built at     *)
(* StartTime, later than recovery_timeout after the epoch, as time.time()  *)
(* is.                                                                     *)
(***************************************************************************)
StartTime == RecoveryTimeout + 1

\* CircuitBreaker.__init__.
NewCircuit == [failures |-> 0, last_failure_time |-> 0, state |-> "closed"]

CbInit ==
    /\ circuit = NewCircuit
    /\ now = StartTime
    /\ inflight = 0
    /\ opened_at = 0
    /\ trial = "none"
    /\ allowed = TRUE

\* record_failure that never opens the circuit.
record_failure_NoOpen(c, t) ==
    [c EXCEPT !.failures = @ + 1, !.last_failure_time = t]

\* CircuitBreaker.record_failure, lines 109-114, at time t.
record_failure(c, t) ==
    [c EXCEPT !.failures = @ + 1,
              !.last_failure_time = t,
              !.state = IF c.failures + 1 >= FailureThreshold
                        THEN "open" ELSE @]

\* record_success that keeps the count of failures.
record_success_KeepFailures(c) == [c EXCEPT !.state = "closed"]

\* CircuitBreaker.record_success, lines 116-119.
record_success(c) == [c EXCEPT !.failures = 0, !.state = "closed"]

\* CircuitBreaker.allow_request, lines 121-131, at time t: the circuit
\* after the call and what the call returns.
allow_request(c, t) ==
    IF c.state = "closed" THEN [circuit |-> c, result |-> TRUE]
    ELSE IF c.state = "open"
    THEN IF t - c.last_failure_time > RecoveryTimeout
         THEN [circuit |-> [c EXCEPT !.state = "half-open"], result |-> TRUE]
         ELSE [circuit |-> c, result |-> FALSE]
    ELSE [circuit |-> c, result |-> TRUE]

\* process_request, lines 359-364: the breaker is asked; a request that is
\* let through is in flight until its outcome is recorded.
AllowRequest ==
    LET a == allow_request(circuit, now)
    IN /\ inflight < MaxInflight
       /\ circuit' = a.circuit
       /\ allowed' = a.result
       /\ inflight' = IF a.result THEN inflight + 1 ELSE inflight
       /\ trial' = IF circuit.state = "open" /\ a.circuit.state = "half-open"
                   THEN "pending" ELSE trial
       /\ UNCHANGED <<now, opened_at, schedVars, dl, restVars>>

\* process_request, line 377: a request in flight succeeds.
RecordSuccess ==
    /\ inflight > 0
    /\ circuit' = record_success(circuit)
    /\ inflight' = inflight - 1
    /\ trial' = IF circuit.state = "half-open" THEN "success" ELSE "none"
    /\ UNCHANGED <<now, opened_at, allowed, schedVars, dl, restVars>>

\* handle_error, line 311: a request in flight fails.
RecordFailure ==
    /\ inflight > 0
    /\ circuit.failures < MaxFailures
    /\ circuit' = record_failure(circuit, now)
    /\ inflight' = inflight - 1
    /\ trial' = IF circuit.state = "half-open" THEN "failure" ELSE "none"
    /\ opened_at' = IF circuit.state # "open" /\ circuit'.state = "open"
                    THEN now ELSE opened_at
    /\ UNCHANGED <<now, allowed, schedVars, dl, restVars>>

\* Time passes.
Tick ==
    /\ now < StartTime + MaxTime
    /\ now' = now + 1
    /\ UNCHANGED <<circuit, inflight, opened_at, trial, allowed, schedVars,
                   dl, restVars>>

CbNext == AllowRequest \/ RecordSuccess \/ RecordFailure \/ Tick

(***************************************************************************)
(* normalize_url applied to a URL, and again to what it returned, with     *)
(* the same options.                                                       *)
(***************************************************************************)
NoOptions == [keep_auth |-> FALSE, keep_fragments |-> FALSE,
              keep_blank_values |-> FALSE, keep_default_port |-> FALSE,
              sort_query |-> FALSE]

NoNorm == [url |-> NoUrl, options |-> NoOptions, n |-> 0, once |-> NoUrl]

\* The number of times normalize_url is applied in a row.
MaxApplications == 2

Normalize ==
    LET o == norm.options
        out == normalize_url(norm.url, o.keep_auth, o.keep_fragments,
                             o.keep_blank_values, o.keep_default_port,
                             o.sort_query)
    IN /\ norm.url # NoUrl
       /\ norm.n < MaxApplications
       /\ norm' = [norm EXCEPT !.url = out, !.n = @ + 1,
                               !.once = IF norm.n = 0 THEN out ELSE @]
       /\ UNCHANGED <<schedVars, dl, cbVars, req, spider>>

(***************************************************************************)
(* The Request of a schedule_request call (webants/libs/request.py): its   *)
(* method and body, which the fingerprint reads, and its callback and      *)
(* errback, which the spider calls.                                        *)
(***************************************************************************)
Methods == {"GET", "POST"}
\* body: "" is no body (None).
Bodies == {"", "x"}
\* errback: absent, or Spider.handle_error.
Errbacks == {"none", "handle_error"}

\* Request(url): method "GET", no body, no callback, no errback.
NewRequest == [url |-> NoUrl, method |-> "GET", body |-> "",
               callback |-> "none", errback |-> "none"]

\* Request.fingerprint(), lines 190-225: ":".join of the method, the URL
\* normalized once more and, when there is one, the body.
fingerprint(request) ==
    <<request.method,
      normalize_url(request.url, FALSE, FALSE, TRUE, FALSE, TRUE)>>
    \o (IF request.body # "" THEN <<request.body>> ELSE <<>>)

\* The Request that call c carries: its url is the argument normalized
\* (Request.__init__, line 104).
RequestOf(c) == [url |-> RequestUrl(req[c].url), method |-> req[c].method,
                 body |-> req[c].body]

\* A caller builds Request(raw, method = ..., body = ...) and calls
\* schedule_request.
ScheduleRequestAs(raw, dont_filter, method, body) ==
    /\ ScheduleRequest(raw, dont_filter)
    /\ req' = [req EXCEPT ![ncalls + 1].url = raw,
                          ![ncalls + 1].method = method,
                          ![ncalls + 1].body = body]
    /\ UNCHANGED <<dl, cbVars, spider, norm>>

(***************************************************************************)
(* The spider (webants/spider.py, class Spider).  spider is the Spider     *)
(* object with its start() coroutine and its process_request tasks:        *)
(*   parse         what the subclass's parse does when awaited: it returns *)
(*                 nothing or raises (as Spider.parse does)                *)
(*   with_callback, with_errback   whether the requests the user builds    *)
(*                 (start_requests, callers of scheduler.schedule_request) *)
(*                 have callback = self.parse, errback = self.handle_error *)
(*   seeds         number of requests start_requests yields                *)
(*   running, failed_urls, processing, circuits, stats   the fields        *)
(*                 _running, _failed_urls, _processing, _domain_circuits   *)
(*                 and stats                                               *)
(*   signals       name -> number of signals.send calls with that name     *)
(*   pc, nseeds, scall, sweep, sweep_url   where start() is: the seeds     *)
(*                 taken, the schedule_request call it awaits, the URLs    *)
(*                 retry_failed has still to visit, the URL it re-admits   *)
(*   task          call -> the process_request task of the request of that *)
(*                 call, and for the properties: what _fetch produced, the *)
(*                 number of request.callback(...) calls, of               *)
(*                 record_success, record_failure and errback calls for    *)
(*                 the request, and whether its URL was put in             *)
(*                 _failed_urls                                            *)
(* A coroutine runs until it suspends: while start() is at "seed", "loop"  *)
(* or "sweep" it has not suspended and nothing else takes a step.          *)
(***************************************************************************)
\* retry_failed, line 342: priority = 100.
RetryFailedPriority == 100

\* What client.request does for the requests of the spider.
SpiderOutcomes == {TransportError, 200}

SignalNames == {"spider_started", "spider_stopped", "request_scheduled",
                "request_finished", "request_dropped", "item_scraped"}

NoTask == [pc |-> "none", response |-> "none", invoked |-> 0,
           successes |-> 0, failures |-> 0, errbacks |-> 0, added |-> FALSE]

\* Spider.__init__, for a subclass with the given parse and start_requests.
Spider(parse, with_callback, with_errback, seeds) ==
    [parse |-> parse, with_callback |-> with_callback,
     with_errback |-> with_errback, seeds |-> seeds,
     running |-> FALSE,
     failed_urls |-> {},
     processing |-> {},
     circuits |-> <<>>,
     stats |-> [total_requests |-> 0, successful_requests |-> 0,
                failed_requests |-> 0, circuits_open |-> 0],
     signals |-> [n \in SignalNames |-> 0],
     pc |-> "new", nseeds |-> 0, scall |-> 0, sweep |-> {},
     sweep_url |-> NoUrl,
     task |-> [c \in Calls |-> NoTask]]

\* The Request a user of this spider builds.
UserRequest ==
    [NewRequest EXCEPT
       !.callback = IF spider.with_callback THEN spider.parse ELSE "none",
       !.errback = IF spider.with_errback THEN "handle_error" ELSE "none"]

\* Spider._get_domain: the netloc, port included.
SpiderDomain(url) == <<url.host, url.port>>

\* _get_circuit_breaker: the breaker of the domain, made on first use.
CircuitOf(s, domain) ==
    IF domain \in DOMAIN s.circuits THEN s.circuits[domain] ELSE NewCircuit

WithCircuit(s, domain, c) ==
    [s EXCEPT !.circuits = [d \in DOMAIN s.circuits \cup {domain} |->
                              IF d = domain THEN c ELSE s.circuits[d]]]

\* signals.send(name, ...).
Send(s, name) == [s EXCEPT !.signals[name] = @ + 1]

\* start() has suspended (or returned).
Suspended == spider.pc \in {"seeding", "retrying", "get", "returned"}

\* handle_error, lines 299-320, for the request of call c at time t.
handle_error(s, c, t) ==
    LET url == call[c].url
        domain == SpiderDomain(url)
        c1 == record_failure(CircuitOf(s, domain), t)
    IN [WithCircuit(s, domain, c1) EXCEPT
          !.stats.failed_requests = @ + 1,
          !.failed_urls = @ \cup {url},
          !.stats.circuits_open = IF c1.state = "open" THEN @ + 1 ELSE @,
          !.task[c].failures = @ + 1,
          !.task[c].added = TRUE]

\* start(), lines 399-405.
SpiderStart ==
    /\ spider.pc = "new"
    /\ spider' = Send([spider EXCEPT !.running = TRUE, !.pc = "seed"],
                      "spider_started")
    /\ UNCHANGED <<schedVars, dl, cbVars, req, norm>>

\* start(), lines 409-410: the next seed is given to schedule_request,
\* which returns False at once or suspends.
SeedNext(raw, dont_filter) ==
    LET r == ncalls + 1
    IN /\ spider.pc = "seed"
       /\ spider.nseeds < spider.seeds
       /\ schedule_request(raw, dont_filter)
       /\ req' = [req EXCEPT ![r] = UserRequest]
       /\ spider' = IF call'[r].pc = "returned_false"
                    THEN [spider EXCEPT !.nseeds = @ + 1]
                    ELSE [spider EXCEPT !.nseeds = @ + 1, !.scall = r,
                                        !.pc = "seeding"]
       /\ UNCHANGED <<dl, cbVars, norm>>

\* start_requests is exhausted: on to the main loop.
SeedsDone ==
    /\ spider.pc = "seed"
    /\ spider.nseeds = spider.seeds
    /\ spider' = [spider EXCEPT !.pc = "loop"]
    /\ UNCHANGED <<schedVars, dl, cbVars, req, norm>>

\* The schedule_request call start() awaits (for a seed, or in
\* retry_failed) goes on after its sleep or its wait for room; when it
\* returns, retry_failed removes the URL from _failed_urls (line 345).
CallResume ==
    LET r == spider.scall
        priority == IF spider.pc = "retrying" THEN RetryFailedPriority
                    ELSE DefaultPriority
    IN /\ spider.pc \in {"seeding", "retrying"}
       /\ Admit(r, priority) \/ PutResume(r, priority)
       /\ spider' =
            IF call'[r].pc # "admitted" THEN spider
            ELSE IF spider.pc = "seeding"
            THEN [spider EXCEPT !.pc = "seed", !.scall = 0]
            ELSE [spider EXCEPT !.pc = "sweep", !.scall = 0,
                                !.sweep_url = NoUrl,
                                !.failed_urls = @ \ {spider.sweep_url}]
       /\ UNCHANGED <<dl, cbVars, req, norm>>

\* close(), lines 432-448, called by start() in its finally clause.
close(s) ==
    IF ~s.running THEN s
    ELSE Send([s EXCEPT !.running = FALSE], "spider_stopped")

\* start(), lines 413-425: the top of the main loop.  get_request waits
\* while the queue is empty; a request taken is given to a new
\* process_request task, and retry_failed is called when _failed_urls is
\* not empty.
Loop ==
    /\ spider.pc = "loop" \/ (spider.pc = "get" /\ request_queue # <<>>)
    /\ IF ~spider.running
       THEN /\ spider' = [close(spider) EXCEPT !.pc = "returned"]
            /\ UNCHANGED schedVars
       ELSE IF request_queue = <<>>
       THEN /\ spider' = [spider EXCEPT !.pc = "get"]
            /\ UNCHANGED schedVars
       ELSE /\ GetRequest
            /\ spider' =
                 [spider EXCEPT
                    !.task[HeapTop(request_queue).request.id].pc = "created",
                    !.pc = IF spider.failed_urls # {} THEN "sweep"
                           ELSE "loop",
                    !.sweep = spider.failed_urls]
    /\ UNCHANGED <<dl, cbVars, req, norm>>

\* retry_failed, lines 327-347: the next URL of the copy of _failed_urls.
SweepNext(url) ==
    LET r == ncalls + 1
        domain == SpiderDomain(url)
        a == allow_request(CircuitOf(spider, domain), now)
        s1 == [spider EXCEPT !.sweep = @ \ {url}]
        s2 == WithCircuit(s1, domain, a.circuit)
    IN /\ spider.pc = "sweep"
       /\ url \in spider.sweep
       /\ IF url \in spider.processing
          THEN /\ spider' = s1
               /\ UNCHANGED <<schedVars, req>>
          ELSE IF ~a.result
          THEN /\ spider' = s2
               /\ UNCHANGED <<schedVars, req>>
          ELSE /\ ncalls + (spider.seeds - spider.nseeds) < MaxCalls
               /\ schedule_request(url, FALSE)
               /\ req' = [req EXCEPT ![r] =
                            [NewRequest EXCEPT !.callback = spider.parse,
                                               !.errback = "handle_error"]]
               /\ spider' = IF call'[r].pc = "returned_false"
                            THEN [s2 EXCEPT !.failed_urls = @ \ {url}]
                            ELSE [s2 EXCEPT !.pc = "retrying", !.scall = r,
                                            !.sweep_url = url]
       /\ UNCHANGED <<dl, cbVars, norm>>

\* retry_failed has visited every URL: back to the top of the main loop.
SweepDone ==
    /\ spider.pc = "sweep"
    /\ spider.sweep = {}
    /\ spider' = [spider EXCEPT !.pc = "loop"]
    /\ UNCHANGED <<schedVars, dl, cbVars, req, norm>>

\* process_request, lines 355-368: the task of the request of call c
\* starts; a request the breaker lets through is announced and given to
\* downloader.fetch, which sleeps first (_fetch, line 217).
ProcessStart(c) ==
    LET url == call[c].url
        domain == SpiderDomain(url)
        a == allow_request(CircuitOf(spider, domain), now)
        s1 == [WithCircuit(spider, domain, a.circuit) EXCEPT
                 !.stats.total_requests = @ + 1,
                 !.processing = @ \cup {url}]
    IN /\ Suspended
       /\ spider.task[c].pc = "created"
       /\ spider' = IF a.result
                    THEN [Send(s1, "request_scheduled") EXCEPT
                            !.task[c].pc = "sleep"]
                    ELSE [s1 EXCEPT !.task[c].pc = "rejected"]
       /\ UNCHANGED <<schedVars, dl, cbVars, req, norm>>

\* _fetch, lines 219-229: the request is counted and sent.
ProcessSend(c) ==
    /\ Suspended
    /\ spider.task[c].pc = "sleep"
    /\ spider' = [spider EXCEPT !.task[c].pc = "request"]
    /\ dl' = [dl EXCEPT !.stats.total_requests =
                           IF call[c].url \in dl.retry_requests
                           THEN @ ELSE @ + 1]
    /\ UNCHANGED <<schedVars, cbVars, req, norm>>

(***************************************************************************)
(* client.request answers: the rest of Downloader.fetch (lines 371-378)    *)
(* and of process_request (lines 370-395).  fetch hands a response to the  *)
(* callback, awaits it and returns what it returns; for a transport error  *)
(* it returns the status-600 response.  process_request then calls         *)
(* request.callback(response) and iterates over the value with "async for" *)
(* (line 371): the callback is a coroutine function (Request.__init__,     *)
(* line 113), its value is a coroutine, not an asynchronous iterator, and  *)
(* TypeError is raised.                                                    *)
(***************************************************************************)
process_request(s, c, outcome, t) ==
    LET url == call[c].url
        domain == SpiderDomain(url)
        cb == req[c].callback
        synthetic == outcome \in Raises
        infetch == IF ~synthetic /\ cb # "none" THEN 1 ELSE 0
        fetch_raised == ~synthetic /\ cb = "raises"
        inloop == IF ~fetch_raised /\ cb # "none" THEN 1 ELSE 0
        raised == cb # "none"
        s1 == [s EXCEPT !.task[c].response = IF synthetic THEN "synthetic"
                                             ELSE "response",
                        !.task[c].invoked = infetch + inloop]
        s2 == IF raised
              THEN Send(IF req[c].errback = "handle_error"
                        THEN [handle_error(s1, c, t) EXCEPT
                                !.task[c].errbacks = @ + 1]
                        ELSE s1,
                        "request_finished")
              ELSE Send([WithCircuit(s1, domain,
                                     record_success(CircuitOf(s1, domain)))
                           EXCEPT !.stats.successful_requests = @ + 1,
                                  !.task[c].successes = @ + 1],
                        "request_finished")
    IN IF url \in s2.processing
       THEN [s2 EXCEPT !.processing = @ \ {url}, !.task[c].pc = "done"]
       ELSE [s2 EXCEPT !.task[c].pc = "crashed"]

ProcessDone(c, outcome) ==
    /\ Suspended
    /\ spider.task[c].pc = "request"
    /\ dl' = fetch(dl, outcome)
    /\ spider' = process_request(spider, c, outcome, now)
    /\ IF spider'.task[c].pc = "done"
       THEN request_completed(c, "completed")
       ELSE UNCHANGED schedVars
    /\ UNCHANGED <<cbVars, req, norm>>

\* Another coroutine of the program gives a request to
\* spider.scheduler.schedule_request ...
CallerSchedule(raw, dont_filter) ==
    /\ Suspended
    /\ ncalls + (spider.seeds - spider.nseeds) < MaxCalls
    /\ schedule_request(raw, dont_filter)
    /\ req' = [req EXCEPT ![ncalls + 1] = UserRequest]
    /\ UNCHANGED <<dl, cbVars, spider, norm>>

\* (the calls of a run are MaxCalls at most, the seeds among them) ...

\* ... and its call goes on after its sleep or its wait for room.
CallerResume(r) ==
    /\ Suspended
    /\ r # spider.scall
    /\ Admit(r, DefaultPriority) \/ PutResume(r, DefaultPriority)
    /\ UNCHANGED notSched

\* Time passes; the breakers read the clock only once a circuit is open.
SpiderTick ==
    /\ Suspended
    /\ \E d \in DOMAIN spider.circuits : spider.circuits[d].state = "open"
    /\ Tick

\* The URLs of the requests given to the spider's scheduler.
SpiderUrls == { raw \in RawUrls : raw = RequestUrl(raw) }

SpiderNext ==
    \/ SpiderStart
    \/ \E raw \in SpiderUrls, dont_filter \in BOOLEAN :
          SeedNext(raw, dont_filter)
    \/ SeedsDone
    \/ CallResume
    \/ Loop
    \/ \E url \in Urls : SweepNext(url)
    \/ SweepDone
    \/ \E c \in Calls : ProcessStart(c)
    \/ \E c \in Calls : ProcessSend(c)
    \/ \E c \in Calls, outcome \in SpiderOutcomes : ProcessDone(c, outcome)
    \/ \E raw \in SpiderUrls, dont_filter \in BOOLEAN :
          CallerSchedule(raw, dont_filter)
    \/ \E r \in Calls : CallerResume(r)
    \/ SpiderTick

\* The variables no claim of the scheduler, the downloader or the breaker
\* alone reads.
RestInit ==
    /\ req = [c \in Calls |-> NewRequest]
    /\ spider = Spider("raises", TRUE, TRUE, 0)
    /\ norm = NoNorm


\* The scheduler at rest, as Scheduler.__init__ leaves it with no limits.
SchedIdle == SchedInit /\ max_requests = 0 /\ max_queue_size = 0

InitDL ==
    /\ SchedIdle
    /\ CbInit
    /\ RestInit
    /\ \E maxsize \in {0, MaxQueueSize} : dl = Downloader(maxsize)

SpecDL == InitDL /\ [][DlNext]_vars

\* The downloader is given a single request, through the queue or by a
\* direct call.
SubmitSingle(url, retries) == dl.nreq = 0 /\ Submit(url, retries)

DirectCallSingle(url, retries) == dl.nreq = 0 /\ DirectCall(url, retries)

DlNextSingle ==
    \/ \E url \in Urls, retries \in 0..MaxRetries : SubmitSingle(url, retries)
    \/ \E url \in Urls, retries \in 0..MaxRetries :
          DirectCallSingle(url, retries)
    \/ \E w \in Workers : WorkerStart(w)
    \/ \E w \in Workers : WorkerNext(w)
    \/ \E p \in Tasks : FetchStart(p)
    \/ \E p \in Tasks, outcome \in Outcomes, cb \in Callbacks :
          FetchDone(p, outcome, cb)

SpecDLSingle == InitDL /\ [][DlNextSingle]_vars

\* The circuit breaker alone.
InitCB == SchedIdle /\ dl = Downloader(0) /\ CbInit /\ RestInit

SpecCB == InitCB /\ [][CbNext]_vars

\* The scheduler runs next to a downloader and a breaker nobody uses.
Init == SchedInit /\ dl = Downloader(0) /\ CbInit /\ RestInit

Next == SchedNext

\* Every admitted request is completed at most once.
Spec == Init /\ [][Next]_vars

\* A caller may also report a request twice.
NextDouble ==
    \/ Next
    \/ (\E r \in Calls : RequestCompletedAgain(r)) /\ UNCHANGED notSched

SpecDouble == Init /\ [][NextDouble]_vars

\* The callers make one call more.
NextMore ==
    \/ Next
    \/ /\ \E raw \in RawUrls, dont_filter \in BOOLEAN :
             ScheduleRequestMore(raw, dont_filter)
       /\ UNCHANGED notSched

SpecMore == Init /\ [][NextMore]_vars

\* normalize_url alone.
InitUrl ==
    /\ SchedIdle /\ dl = Downloader(0) /\ CbInit
    /\ req = [c \in Calls |-> NewRequest]
    /\ spider = Spider("raises", TRUE, TRUE, 0)
    /\ \E url \in UrlInputs, options \in Options :
          norm = [url |-> url, options |-> options, n |-> 0, once |-> NoUrl]

SpecUrl == InitUrl /\ [][Normalize]_vars

\* The scheduler with callers whose requests differ in method and body.
NextFP ==
    \/ \E raw \in RawUrls, dont_filter \in BOOLEAN, method \in Methods,
          body \in Bodies : ScheduleRequestAs(raw, dont_filter, method, body)
    \/ /\ \/ \E r \in Calls, priority \in Priorities : Admit(r, priority)
          \/ \E r \in Calls, priority \in Priorities : PutResume(r, priority)
          \/ GetRequest
          \/ \E r \in Calls : RequestCompleted(r)
       /\ UNCHANGED notSched

SpecFP == Init /\ [][NextFP]_vars

\* The spider on its scheduler and downloader.
InitSpider ==
    /\ SchedIdle /\ dl = Downloader(0) /\ CbInit
    /\ req = [c \in Calls |-> NewRequest]
    /\ norm = NoNorm
    /\ \E parse \in {"nothing", "raises"}, with_callback \in BOOLEAN,
          with_errback \in BOOLEAN, seeds \in 0..NumSeeds :
          spider = Spider(parse, with_callback, with_errback, seeds)

SpecSpider == InitSpider /\ [][SpiderNext]_vars

(***************************************************************************)
(* Properties of the scheduler.                                            *)
(***************************************************************************)
\* The calls that were admitted for URL u: counted and enqueued.
Admitted(u) ==
    { r \in Calls : call[r].url = u
                    /\ call[r].pc \in {"admitted", "completed",
                                        "completed_twice"} }

\* C1: a URL whose requests all have dont_filter = false is admitted at
\* most once, however the schedule_request calls interleave.
C1_AdmittedAtMostOnce ==
    \A u \in Urls \ bypass : Cardinality(Admitted(u)) <= 1

\* The limit check of schedule_request refuses the call.
LimitReached == max_requests # 0 /\ stats.total_scheduled >= max_requests

\* A step that is a schedule_request call, with dont_filter = false, for a
\* URL already admitted.
DuplicateCall(raw) ==
    /\ RequestUrl(raw) \in seen_urls
    /\ schedule_request(raw, FALSE)

\* What C2 says the call leaves alone.
DuplicateRefused ==
    /\ call'[ncalls'].pc = "returned_false"
    /\ stats'.total_scheduled = stats.total_scheduled
    /\ seen_urls' = seen_urls
    /\ request_queue' = request_queue

\* C2 as stated: once a request for URL u was admitted, a later
\* schedule_request for a request with the same normalized URL and
\* dont_filter = false returns False, adds exactly 1 to total_filtered and
\* leaves total_scheduled, seen_urls and the queue unchanged.
C2_DuplicateCounted ==
    [][\A raw \in RawUrls :
         DuplicateCall(raw) =>
            /\ DuplicateRefused
            /\ stats'.total_filtered = stats.total_filtered + 1]_vars

\* C2 amended: the call returns False and leaves total_scheduled, seen_urls
\* and the queue unchanged; it adds exactly 1 to total_filtered unless
\* max_requests > 0 and total_scheduled >= max_requests, where the limit
\* check refuses it first and total_filtered stays.
C2_DuplicateCountedBelowLimit ==
    [][\A raw \in RawUrls :
         DuplicateCall(raw) =>
            /\ DuplicateRefused
            /\ stats'.total_filtered =
                 stats.total_filtered + (IF LimitReached THEN 0 ELSE 1)]_vars

\* A duplicate was counted and a duplicate was refused by the limit check.
C2_Witness ==
    /\ stats.total_filtered > 0
    /\ \E u \in seen_urls : Cardinality(Admitted(u)) = 1
    /\ \E r \in Calls : call[r].pc = "returned_false"

\* C3: with max_requests > 0, total_scheduled never exceeds max_requests.
C3_LimitRespected ==
    max_requests > 0 => stats.total_scheduled <= max_requests

\* C4: active_requests of every host stays within 0..max_domain_concurrent
\* when every admitted request is completed at most once.
C4_ActiveWithinLimit ==
    \A d \in DOMAIN domain_stats :
        /\ domain_stats[d].active_requests >= 0
        /\ domain_stats[d].active_requests <= MaxDomainConcurrent

\* A host at its limit, with a call waiting for a permit of that host.
C4_Witness ==
    \E d \in DOMAIN domain_stats :
        /\ domain_stats[d].active_requests = MaxDomainConcurrent
        /\ domain_semaphores[d].waiters # <<>>

\* Spider.__init__ gives concurrent_requests to the scheduler as
\* max_domain_concurrent and to the downloader as concurrency.
DownloaderConcurrency == MaxDomainConcurrent

\* C5: the admitted-but-not-completed requests of all hosts together are at
\* most the downloader concurrency.
C5_CurrentWithinConcurrency ==
    stats.current_requests <= DownloaderConcurrency

\* get_request returns the request of call c in this step.
Taken(c) == ~call[c].taken /\ call'[c].taken

\* The queue item that holds the request of call c.
ItemOf(c) ==
    CHOOSE e \in { request_queue[i] : i \in 1..Len(request_queue) } :
        e.request.id = c

\* C6: get_request returns a request whose priority is minimal among the
\* requests in the frontier, and get_request calls with no admission in
\* between return non-decreasing priorities.
C6_MinimalPriorityFirst ==
    [][\A c \in Calls :
         Taken(c) =>
            /\ \A i \in 1..Len(request_queue) :
                  ItemOf(c).request.priority <= request_queue[i].request.priority
            /\ prev_got # 0 => ItemOf(c).request.priority >= prev_got]_vars

\* A request was returned while a request of larger priority stays queued.
C6_Witness ==
    /\ prev_got # 0
    /\ \E i \in 1..Len(request_queue) : request_queue[i].priority > prev_got

\* C7: requests of equal priority leave the frontier in the order they were
\* enqueued.
C7_FifoAmongEqualPriorities ==
    [][\A c \in Calls :
         Taken(c) =>
            \A i \in 1..Len(request_queue) :
               ~(/\ request_queue[i].priority = ItemOf(c).priority
                 /\ request_queue[i].seq < ItemOf(c).seq)]_vars

\* C8: schedule_request(r) returning True and then request_completed(r),
\* with no step of another call or of get_request since the call began,
\* leave active_requests of the host, current_requests and the free
\* permits of the host semaphore as they were before the admission.
C8_CompleteRestores ==
    snap.stage = "completed" =>
        LET d == GetDomain(call[snap.request].url)
        IN  /\ domain_stats[d].active_requests = snap.active
            /\ stats.current_requests = snap.current
            /\ domain_semaphores[d].value = snap.permits

\* A call ran alone from its start to its request_completed, on a host that
\* had served a request before.
C8_Witness ==
    /\ snap.stage = "completed"
    /\ stats.total_scheduled > 1

\* C9: a second request_completed for the same request changes nothing:
\* active_requests never goes below 0 and the free permits of a host never
\* exceed max_domain_concurrent.
C9_NoDoubleRelease ==
    \A d \in DOMAIN domain_stats :
        /\ domain_stats[d].active_requests >= 0
        /\ domain_semaphores[d].value <= MaxDomainConcurrent


(***************************************************************************)
(* Properties of the downloader.                                           *)
(***************************************************************************)
\* Task p is about to receive an answer with a status of RETRY_CODES for a
\* request that has retries left.
RetryCase(p, outcome) ==
    /\ dl.task[p].pc = "request"
    /\ outcome \in DOMAIN RETRY_CODES
    /\ dl.request[dl.task[p].request].retries > 0

\* The step put request r on the request queue, once: one put was made, and
\* its item is in the queue or was already taken by the worker p itself.
PutBackOnce(p, r) ==
    /\ dl'.nput = dl.nput + 1
    /\ \/ \E i \in 1..Len(dl'.request_queue) :
             /\ dl'.request_queue[i].request.id = r
             /\ dl'.request_queue[i].seq = dl'.nput
       \/ p # Caller /\ dl'.task[p].pc = "sleep" /\ dl'.task[p].request = r

\* C10: when fetch_retry obtains a response whose status is in RETRY_CODES
\* and request.retries > 0, it decrements request.retries by exactly 1,
\* raises request.priority by exactly 10, puts the request back on the
\* request queue exactly once, and returns None.
C10_RetryReenqueues ==
    [][\A p \in Tasks, outcome \in Statuses, cb \in Callbacks :
         (RetryCase(p, outcome) /\ FetchDone(p, outcome, cb)) =>
            LET r == dl.task[p].request
            IN /\ dl'.request[r].retries = dl.request[r].retries - 1
               /\ dl'.request[r].priority = dl.request[r].priority + 10
               /\ PutBackOnce(p, r)
               /\ dl'.task[p].ret = ReturnNone]_vars

\* Task p is about to receive the answer to an attempt for a request with
\* no retries left.
LastAttempt(p) ==
    /\ dl.task[p].pc = "request"
    /\ dl.request[dl.task[p].request].retries = 0

\* C11: fetch_retry on a request with retries = 0 never returns None: it
\* returns the response as received, status unchanged (also for a status of
\* RETRY_CODES), or the status-600 response after a transport error.  The
\* request has no callback here.
C11_NoRetriesNeverNone ==
    [][\A p \in Tasks, outcome \in Outcomes :
         (LastAttempt(p) /\ FetchDone(p, outcome, "none")) =>
            /\ dl'.task[p].ret.kind = "response"
            /\ dl'.task[p].ret.status =
                  IF outcome = TransportError THEN 600 ELSE outcome]_vars

\* The outcomes that make an attempt fail: a transport error or a status of
\* RETRY_CODES.
Failing == { outcome \in Outcomes :
               outcome = TransportError \/ outcome \in DOMAIN RETRY_CODES }

\* C12: a request that ends in terminal failure (every attempt fails and
\* the retry budget runs out) increases stats.failed_requests by exactly 1
\* over its whole lifetime, and its caller receives a synthetic 600
\* response with retry_exhausted = true.  Stated for the only request the
\* downloader has been given so far, so that the counter is its own.
C12_TerminalFailureCountedOnce ==
    [][\A p \in Tasks, outcome \in Failing, cb \in Callbacks :
         (LastAttempt(p) /\ dl.nreq = 1 /\ FetchDone(p, outcome, cb)) =>
            /\ dl'.stats.failed_requests = 1
            /\ dl'.task[p].ret =
                 Response(600, dl.task[p].request, TRUE)]_vars

RECURSIVE SumRequeued(_, _)
\* The number of times the requests 1..n of d were re-enqueued for a retry.
SumRequeued(d, n) ==
    IF n = 0 THEN 0 ELSE d.request[n].requeued + SumRequeued(d, n - 1)

\* The URLs that were retried (re-enqueued) at least once.
RetriedUrls(d) == { d.request[r].url : r \in { q \in Requests :
                                                d.request[q].requeued > 0 } }

\* C13: stats.total_retries equals the number of times requests were
\* re-enqueued for retry (a request retried n times has contributed n), and
\* stats.retry_requests equals the number of distinct URLs retried at least
\* once.
C13_RetriesCounted ==
    /\ dl.stats.total_retries = SumRequeued(dl, NumRequests)
    /\ dl.stats.retry_requests = Cardinality(RetriedUrls(dl))

\* The requests dispatched at least once.
Dispatched(d) == { r \in Requests : d.request[r].dispatched }

\* C14: stats.total_requests equals the number of distinct requests
\* dispatched at least once: a retried request counts once, and a request
\* dispatched for the first time counts also when its URL was retried
\* earlier by another request.
C14_TotalRequestsCounted ==
    dl.stats.total_requests = Cardinality(Dispatched(dl))

\* Task p is about to receive the answer to an attempt for the only request
\* given to the downloader so far, whose earlier attempts, if any, all
\* ended with a status of RETRY_CODES (none failed in transport).
AfterRetryStatuses(p) ==
    /\ dl.task[p].pc = "request"
    /\ dl.nreq = 1
    /\ dl.stats.failed_requests = 0

RetriesDone(d, r) == (d.request[r].priority - DefaultPriority)
                        \div RetryPriorityStep

\* C16: the delay set on a request for its n-th retry after a retry-table
\* status (n = 0 for the first retry) is retry_delay * backoff_factor^n,
\* for every initial retry budget and every status of the table: the
\* exponent starts at 0 and is never negative.
C16_BackoffExponent ==
    [][\A p \in Tasks, outcome \in Statuses, cb \in Callbacks :
         (RetryCase(p, outcome) /\ FetchDone(p, outcome, cb)) =>
            LET r == dl.task[p].request
            IN dl'.request[r].delay =
                 [factor |-> RETRY_CODES[outcome].backoff_factor,
                  exponent |-> RetriesDone(dl, r)]]_vars

(***************************************************************************)
(* Properties of the circuit breaker.                                      *)
(***************************************************************************)
\* C17: the circuit is open exactly when the count of consecutive failures
\* has reached failure_threshold: with fewer failures in a row
\* allow_request returns True, and once the count has reached the threshold
\* with no success in between it returns False until recovery_timeout has
\* elapsed since the circuit opened.
C17_OpenAtThreshold ==
    [][AllowRequest =>
         /\ (circuit.state = "closed") <=> (circuit.failures < FailureThreshold)
         /\ circuit.failures < FailureThreshold => allowed'
         /\ (circuit.failures >= FailureThreshold
               /\ now - opened_at < RecoveryTimeout) => ~allowed']_vars

\* The threshold was reached and a request was refused.
C17_Witness ==
    /\ circuit.failures = FailureThreshold
    /\ circuit.state = "open"
    /\ ~allowed

\* C18: once the circuit is open, every allow_request is rejected until
\* recovery_timeout has elapsed since it opened, whatever successes and
\* failures the requests already in flight report in between.
C18_OpenRejects ==
    [][(AllowRequest /\ opened_at # 0 /\ now - opened_at < RecoveryTimeout)
         => ~allowed']_vars

\* C19: while the circuit is half-open at most one trial is let through:
\* after allow_request moved the circuit from open to half-open and
\* returned True, allow_request returns False until the outcome of that
\* trial has been recorded.
C19_OneTrial ==
    [][(AllowRequest /\ circuit.state = "half-open" /\ trial = "pending")
         => ~allowed']_vars

\* C20: in half-open state a recorded success closes the circuit with
\* failures = 0; a recorded failure moves it back to open with the opening
\* time reset to now, and an open circuit rejects requests for a full
\* recovery_timeout from that time.
C20_TrialDecides ==
    [][/\ (RecordSuccess /\ circuit.state = "half-open") =>
            circuit'.state = "closed" /\ circuit'.failures = 0
       /\ (RecordFailure /\ circuit.state = "half-open") =>
            /\ circuit'.state = "open"
            /\ circuit'.last_failure_time = now
            /\ opened_at' = now
       /\ (AllowRequest /\ circuit.state = "open"
              /\ now - circuit.last_failure_time < RecoveryTimeout) =>
            ~allowed' /\ circuit'.state = "open"]_vars

\* The trial failed, the circuit is open again and has just refused a
\* request.
C20_Witness ==
    /\ trial = "failure"
    /\ circuit.state = "open"
    /\ opened_at = circuit.last_failure_time
    /\ ~allowed


(***************************************************************************)
(* C25.                                                                    *)
(***************************************************************************)
\* The tasks whose client.request call is in progress.
Exchanging == { p \in Tasks : dl.task[p].pc = "request" }

\* C25: the HTTP exchanges in progress in the downloader are at most
\* concurrency, whether a worker or a direct call issued them.
C25_ExchangesWithinConcurrency == Cardinality(Exchanging) <= Concurrency


(***************************************************************************)
(* Properties of the spider.                                               *)
(***************************************************************************)
\* The requests process_request has finished with.
Processed == { c \in Calls : spider.task[c].pc = "done" }

\* C21: for a request of the spider whose fetch ends in a transport failure
\* (the downloader gives the status-600 response), exactly one failure and
\* no success is recorded with the breaker of its host and its URL is put
\* in the failed-URL set.
C21_TransportFailureRecorded ==
    \A c \in Processed :
        spider.task[c].response = "synthetic"
        => /\ spider.task[c].failures = 1
           /\ spider.task[c].successes = 0
           /\ spider.task[c].added


\* C22: an exception raised by a request's callback does not end the worker
\* that ran it: after the step in which the callback of a fetched response
\* raises, the worker is still in its loop, the queue item it took is
\* marked done and the failure is counted in failed_requests.
C22_CallbackErrorKeepsWorker ==
    [][\A w \in Workers :
          FetchDone(w, 200, "raises")
          => /\ dl'.task[w].pc # "crashed"
             /\ dl'.unfinished = dl.unfinished - 1
             /\ dl'.stats.failed_requests = dl.stats.failed_requests + 1]_vars

(***************************************************************************)
(* The driver under fair scheduling.  The event loop runs every task that  *)
(* is ready, so a step that stays enabled is taken (weak fairness).  No    *)
(* other coroutine schedules requests here and the callbacks yield none,   *)
(* so retry_failed is never entered (_failed_urls is empty whenever a      *)
(* request is taken) and the run has the seeds only.                       *)
(***************************************************************************)
SpiderLiveNext ==
    \/ SpiderStart
    \/ \E raw \in SpiderUrls, dont_filter \in BOOLEAN :
          SeedNext(raw, dont_filter)
    \/ SeedsDone
    \/ CallResume
    \/ Loop
    \/ \E c \in Calls : ProcessStart(c)
    \/ \E c \in Calls : ProcessSend(c)
    \/ \E c \in Calls, outcome \in SpiderOutcomes : ProcessDone(c, outcome)

SpecSpiderLive ==
    InitSpider /\ [][SpiderLiveNext]_vars /\ WF_vars(SpiderLiveNext)

\* The seeds are exhausted, the frontier is empty and no request is being
\* processed.
Quiescent ==
    /\ spider.pc \in {"loop", "get"}
    /\ request_queue = <<>>
    /\ spider.processing = {}
    /\ \A c \in Calls : spider.task[c].pc \notin {"created", "sleep", "request"}

\* C23: Spider.start terminates: from a state where the seeds are
\* exhausted, the frontier is empty and no request is being processed,
\* start() eventually returns with spider_stopped sent exactly once.
C23_StartTerminates ==
    Quiescent ~> (spider.pc = "returned" /\ spider.signals.spider_stopped = 1)

\* C24: a URL leaves the failed set only in a step that enqueues its
\* re-admission in the frontier: whenever retry_failed removes a URL from
\* _failed_urls, a schedule_request call for that URL was admitted in the
\* same step.
C24_RemovedOnlyWhenEnqueued ==
    [][\A url \in Urls :
          (url \in spider.failed_urls /\ url \notin spider'.failed_urls)
          => \E c \in Calls : /\ call'[c].url = url
                              /\ call'[c].pc = "admitted"
                              /\ call[c].pc # "admitted"]_vars

(***************************************************************************)
(* One caller that schedules its requests one after the other, each call   *)
(* awaited before the next is made, on a scheduler without limits.         *)
(***************************************************************************)
ScheduleNext(raw, dont_filter, method, body) ==
    /\ \A c \in 1..ncalls : call[c].pc \in {"admitted", "returned_false"}
    /\ ScheduleRequestAs(raw, dont_filter, method, body)

AdmitNext(r) == Admit(r, DefaultPriority) /\ UNCHANGED notSched

NextSeq ==
    \/ \E raw \in RawUrls, dont_filter \in BOOLEAN, method \in Methods,
          body \in Bodies : ScheduleNext(raw, dont_filter, method, body)
    \/ \E r \in Calls : AdmitNext(r)

InitSeq == SchedIdle /\ dl = Downloader(0) /\ CbInit /\ RestInit

SpecSeq == InitSeq /\ [][NextSeq]_vars

\* Two sequences of query parameters that are each other's reordering.
Reordered(q1, q2) ==
    /\ Len(q1) = Len(q2)
    /\ \A x \in {q1[i] : i \in DOMAIN q1} \cup {q2[i] : i \in DOMAIN q2} :
          Cardinality({i \in DOMAIN q1 : q1[i] = x})
          = Cardinality({i \in DOMAIN q2 : q2[i] = x})

\* Two URLs that differ at most in the order of their query parameters and
\* in the default port of their scheme being written or left out.
SameButOrderAndPort(u, v) ==
    /\ u.scheme = v.scheme /\ u.auth = v.auth /\ u.host = v.host
    /\ u.path = v.path /\ u.fragment = v.fragment
    /\ Reordered(u.query, v.query)
    /\ \/ u.port = v.port
       \/ {u.port, v.port} = {0, DefaultPort(u.scheme)}

\* Earlier calls than c that were admitted with a request of the same
\* method and body as c's, for a URL that differs from c's only in query
\* order or default port.
AdmittedVariants(c) ==
    { b \in 1..(c - 1) :
        /\ call[b].pc \in {"admitted", "completed"}
        /\ req[b].method = req[c].method
        /\ req[b].body = req[c].body
        /\ req[b].url # req[c].url
        /\ SameButOrderAndPort(req[b].url, req[c].url) }

C27_NormalizeIdempotent == norm.n >= 2 => norm.url = norm.once

\* C28: a request is filtered as a duplicate only if its fingerprint
\* (method, canonical URL, body) equals that of a request scheduled before:
\* whenever a schedule_request call is counted in total_filtered, an
\* earlier call that was not refused carries a request of equal fingerprint.
C28_FilteredOnlyOnEqualFingerprint ==
    [][\A c \in Calls :
          (/\ c = ncalls + 1
           /\ ncalls' = c
           /\ stats'.total_filtered = stats.total_filtered + 1)
          => \E b \in 1..(c - 1) :
                /\ call[b].pc \notin {"new", "returned_false"}
                /\ fingerprint(RequestOf(b))' = fingerprint(RequestOf(c))']_vars

\* The process_request tasks that returned because the circuit breaker of
\* their host refused the request.
Rejected == { c \in Calls : spider.task[c].pc = "rejected" }

\* C29: a request the driver took from the frontier and the circuit
\* breaker of its host rejected is not fetched, and one request_dropped
\* event is sent for it.
C29_RejectedIsDropped ==
    /\ \A c \in Rejected : spider.task[c].response = "none"
    /\ spider.signals["request_dropped"] = Cardinality(Rejected)

\* C30: the response fetched for a request the driver processed is given
\* to the request's callback exactly once.
C30_CallbackInvokedOnce ==
    \A c \in Processed :
       (spider.task[c].response = "response" /\ req[c].callback # "none")
       => spider.task[c].invoked = 1

(***************************************************************************)
(* The downloader given one request whose server answers every exchange    *)
(* with the same status of the retry table.  The request starts with up to *)
(* LargeRetries retries, more than the table allows for that status.       *)
(***************************************************************************)
LargeRetries == 4

RepeatedStatus == 500

DlNextRepeated ==
    \/ \E url \in Urls, retries \in 0..LargeRetries :
          SubmitSingle(url, retries)
    \/ \E url \in Urls, retries \in 0..LargeRetries :
          DirectCallSingle(url, retries)
    \/ \E w \in Workers : WorkerStart(w)
    \/ \E w \in Workers : WorkerNext(w)
    \/ \E p \in Tasks : FetchStart(p)
    \/ \E p \in Tasks, cb \in Callbacks : FetchDone(p, RepeatedStatus, cb)

SpecDLRepeated == InitDL /\ [][DlNextRepeated]_vars

\* C31: a request that keeps receiving the retry-table status c is retried
\* at most RETRY_CODES[c].max_retries times, whatever its own retries.
C31_RetriesWithinStatusBudget ==
    \A r \in Requests :
       dl.request[r].requeued <= RETRY_CODES[RepeatedStatus].max_retries

\* C32: a request re-enqueued after a transport error has its delay set
\* to the backoff retry_delay * 2^n of its n-th retry (n counted from 0 or
\* from 1).
C32_TransportRetryBackoff ==
    [][\A p \in Tasks, cb \in Callbacks :
          LET r == dl.task[p].request
          IN (/\ FetchDone(p, TransportError, cb)
              /\ dl'.request[r].requeued = dl.request[r].requeued + 1)
             => /\ dl'.request[r].delay.factor = 2
                /\ dl'.request[r].delay.exponent
                     \in {dl.request[r].requeued,
                          dl.request[r].requeued + 1}]_vars

(***************************************************************************)
(* The downloader given one request whose exchanges end in an exception    *)
(* (a transport error, or the redirect limit exceeded) or in a 200.        *)
(***************************************************************************)
DlNextRedirect ==
    \/ \E url \in Urls, retries \in 0..MaxRetries : SubmitSingle(url, retries)
    \/ \E url \in Urls, retries \in 0..MaxRetries :
          DirectCallSingle(url, retries)
    \/ \E w \in Workers : WorkerStart(w)
    \/ \E w \in Workers : WorkerNext(w)
    \/ \E p \in Tasks : FetchStart(p)
    \/ \E p \in Tasks, outcome \in Raises \cup {200}, cb \in Callbacks :
          FetchDone(p, outcome, cb)

SpecDLRedirect == InitDL /\ [][DlNextRedirect]_vars

\* C33: a fetch that fails because the redirect limit was exceeded is
\* terminal: the request is not re-enqueued, also when it has retries
\* left, and fetch_retry returns a synthetic status-600 response for it.
C33_RedirectOverflowTerminal ==
    [][\A p \in Tasks, cb \in Callbacks :
          LET r == dl.task[p].request
          IN FetchDone(p, TooManyRedirects, cb)
             => /\ dl'.request[r].requeued = dl.request[r].requeued
                /\ dl'.request_queue = dl.request_queue
                /\ dl'.task[p].ret.kind = "response"
                /\ dl'.task[p].ret.status = RetryExhaustedStatus]_vars

(***************************************************************************)
(* The downloader given one request, through the queue, by a direct call   *)
(* of fetch_retry or by a direct call of fetch.                            *)
(***************************************************************************)
DirectFetchSingle(url, retries) == dl.nreq = 0 /\ DirectFetch(url, retries)

DlNextFetch ==
    \/ DlNextSingle
    \/ \E url \in Urls, retries \in 0..MaxRetries :
          DirectFetchSingle(url, retries)

SpecDLFetch == InitDL /\ [][DlNextFetch]_vars

\* C34: every synthetic status-600 response the downloader produces, in
\* fetch as in fetch_retry, carries the originating request and
\* retry_exhausted = true in its extensions.
C34_SyntheticCarriesExtensions ==
    \A p \in Tasks :
       (dl.task[p].ret.kind = "response"
        /\ dl.task[p].ret.status = RetryExhaustedStatus)
       => /\ dl.task[p].ret.request = dl.task[p].request
          /\ dl.task[p].ret.request # 0
          /\ dl.task[p].ret.retry_exhausted

(***************************************************************************)
(* A scheduler and a downloader side by side: one caller schedules         *)
(* requests one after the other while the downloader is given one request. *)
(***************************************************************************)
ScheduleAfter(raw, dont_filter) ==
    /\ \A c \in 1..ncalls : call[c].pc \in {"admitted", "returned_false"}
    /\ ScheduleRequest(raw, dont_filter)
    /\ UNCHANGED notSched

NextStats ==
    \/ \E raw \in RawUrls, dont_filter \in BOOLEAN :
          ScheduleAfter(raw, dont_filter)
    \/ \E r \in Calls : AdmitNext(r)
    \/ DlNextSingle

SpecStats == InitSeq /\ [][NextStats]_vars

\* C35: the cumulative counters of the scheduler's and the downloader's
\* stats never decrease in any step.
C35_CountersNeverDecrease ==
    [][/\ stats'.total_scheduled >= stats.total_scheduled
       /\ stats'.total_filtered >= stats.total_filtered
       /\ dl'.stats.total_requests >= dl.stats.total_requests
       /\ dl'.stats.successful_requests >= dl.stats.successful_requests
       /\ dl'.stats.failed_requests >= dl.stats.failed_requests
       /\ dl'.stats.retry_requests >= dl.stats.retry_requests
       /\ dl'.stats.total_retries >= dl.stats.total_retries]_vars

\* Every one of these counters has moved.
C35_Witness ==
    /\ stats.total_scheduled > 0 /\ stats.total_filtered > 0
    /\ dl.stats.total_requests > 0 /\ dl.stats.successful_requests > 0
    /\ dl.stats.failed_requests > 0 /\ dl.stats.retry_requests > 0
    /\ dl.stats.total_retries > 0

\* The process_request tasks that have ended: normally, at the circuit
\* breaker's refusal, or by an exception in the finally clause.
Ended == { c \in Calls : spider.task[c].pc \in {"done", "rejected", "crashed"} }

\* C36: every request the driver took from the scheduler gets its
\* scheduler.request_completed call and its URL leaves _processing: once
\* its process_request task has ended, the call is completed and no ended
\* task has left its URL in _processing.
C36_TakenIsCompleted ==
    \A c \in Ended :
       /\ call[c].pc = "completed"
       /\ (call[c].url \in spider.processing
           => \E b \in Calls \ Ended :
                 /\ spider.task[b].pc \in {"sleep", "request"}
                 /\ call[b].url = call[c].url)

(***************************************************************************)
(* Cancellation of a schedule_request call.  The task that runs the call   *)
(* is cancelled while it is suspended: asyncio raises CancelledError at    *)
(* the await the call is in.  Semaphore.acquire and Queue.put take the     *)
(* call off their waiting lists on the way out; schedule_request itself    *)
(* has no handler for it (CancelledError is not an Exception, lines        *)
(* 166-168) and no finally block, so nothing else is undone.               *)
(***************************************************************************)
Without(s, r) == SelectSeq(s, LAMBDA x : x # r)

Cancel(r) ==
    LET domain == GetDomain(call[r].url)
    IN
    /\ call[r].pc \in {"acquire", "sleep", "put"}
    /\ call' = [call EXCEPT ![r].pc = "cancelled"]
    /\ domain_semaphores' =
         [domain_semaphores EXCEPT ![domain].waiters = Without(@, r)]
    /\ putters' = Without(putters, r)
    /\ snap' = KeepSnap(r)
    /\ UNCHANGED <<max_requests, max_queue_size, seen_urls, stats,
                   domain_stats, request_queue, ncalls, bypass, nput,
                   prev_got>>

NextCancel ==
    \/ SchedNext
    \/ \E r \in Calls : Cancel(r) /\ UNCHANGED notSched

SpecCancel == Init /\ [][NextCancel]_vars

\* The calls of schedule_request for host h that are between the acquire
\* and the return.
Admitting(h) ==
    { c \in Calls : /\ call[c].pc \in {"acquire", "sleep", "put", "put_woken"}
                    /\ GetDomain(call[c].url) = h }

\* C37: a schedule_request call that acquired the permit of its host and
\* then did not enqueue its request gives the permit back: whenever no
\* admission is in progress for host h, the free permits of h plus the
\* active_requests of h make max_domain_concurrent.
C37_PermitGivenBack ==
    \A h \in DOMAIN domain_semaphores :
       Admitting(h) = {}
          => domain_semaphores[h].value + domain_stats[h].active_requests
                = MaxDomainConcurrent

\* C38: Spider.start admits every seed and reaches its dispatch loop,
\* whatever the seeds are: the seeding phase of start() (lines 409-410)
\* always ends, also when more seeds target a host than
\* max_domain_concurrent allows in flight.
C38_SeedsReachLoop == <>(spider.pc \notin {"new", "seed", "seeding"})

\* Worker w is about to receive an answer that makes fetch_retry put its
\* request back (a status in RETRY_CODES or a failed exchange, with retries
\* left) while the bounded request queue is full.
RetryOnFull(w, outcome) ==
    /\ dl.task[w].pc = "request"
    /\ outcome \in DOMAIN RETRY_CODES \cup Raises
    /\ dl.request[dl.task[w].request].retries > 0
    /\ DlFull(dl)

\* C39: a retry that is re-enqueued while the bounded request queue is
\* full is not lost and does not end the worker: after the step the worker
\* has not left its loop, and the request is on the queue or still in the
\* worker's hands, waiting for room.
C39_RetryWaitsForRoom ==
    [][\A w \in Workers, outcome \in Outcomes, cb \in Callbacks :
         (RetryOnFull(w, outcome) /\ FetchDone(w, outcome, cb)) =>
            LET r == dl.task[w].request
            IN /\ dl'.task[w].pc # "crashed"
               /\ \/ \E i \in 1..Len(dl'.request_queue) :
                        dl'.request_queue[i].request.id = r
                  \/ dl'.task[w].request = r]_vars

(***************************************************************************)
(* start_downloader on a request queue that was filled beforehand and that *)
(* nothing else puts requests on.  The callbacks of the requests return;   *)
(* every exchange ends, with a response or an exception.                   *)
(***************************************************************************)
ReturningCallbacks == Callbacks \ {"raises"}

\* What an exchange ends with: a status outside RETRY_CODES, a status of
\* RETRY_CODES (two, with different retry_config), or an exception.
JoinOutcomes == {200, 429, 500} \cup Raises

\* The requests on the queue are for one URL, made without retries or
\* with the whole budget.
JoinUrl == CHOOSE url \in Urls : TRUE

JoinRetries == {0, MaxRetries}

\* The number of requests on the queue start_downloader is called with.
JoinRequests == 1

\* A client puts a Request on the queue before start_downloader is called.
SubmitBefore(url, retries) ==
    /\ dl.join = "new"
    /\ dl.nreq < JoinRequests
    /\ Submit(url, retries)

\* start_downloader, lines 394-405: the worker tasks are created and
\* request_queue.join() is awaited; join() returns at once when no item is
\* unfinished.
start_downloader ==
    /\ dl.join = "new"
    /\ dl' = [dl EXCEPT !.join = IF dl.unfinished = 0 THEN "returned"
                                 ELSE "joining"]
    /\ UNCHANGED <<schedVars, cbVars, restVars>>

\* A worker task created by start_downloader begins.
WorkerBegin(w) ==
    /\ dl.join # "new"
    /\ WorkerStart(w)

\* A worker's exchange ends and its callback, if any, returns.
WorkerFetchDone(w, outcome, cb) == FetchDone(w, outcome, cb)

\* request_queue.join() returns: task_done() has brought the count of
\* unfinished items to zero.
JoinDone ==
    /\ dl.join = "joining"
    /\ dl.unfinished = 0
    /\ dl' = [dl EXCEPT !.join = "returned"]
    /\ UNCHANGED <<schedVars, cbVars, restVars>>

\* The steps the event loop and the HTTP client take on their own.  There
\* are as many workers as permits of self.sem (many = concurrency, line
\* 396) and nothing is put on the queue but retries, so a worker that waits
\* in _next_request is never given an item: the worker that re-enqueues a
\* request goes round its loop without suspending and takes the head of
\* the queue itself (worker_loop).
JoinRun ==
    \/ \E w \in Workers : WorkerBegin(w)
    \/ \E w \in Workers : FetchStart(w)
    \/ \E w \in Workers, outcome \in JoinOutcomes,
          cb \in ReturningCallbacks : WorkerFetchDone(w, outcome, cb)
    \/ JoinDone

NextJoin ==
    \/ \E retries \in JoinRetries : SubmitBefore(JoinUrl, retries)
    \/ start_downloader
    \/ JoinRun

\* The event loop runs every task that can run, and the client answers or
\* times out every exchange.
SpecJoin == InitDL /\ [][NextJoin]_vars /\ WF_vars(JoinRun)

\* The requests a worker holds or the queue holds.
Outstanding ==
    { dl.task[w].request : w \in { v \in Workers :
                                      dl.task[v].pc \in {"sleep", "request"} } }
       \cup { dl.request_queue[i].request.id :
                 i \in 1..Len(dl.request_queue) }

\* C40: on a queue filled beforehand, with callbacks that return,
\* start_downloader eventually returns; request.retries is never negative,
\* a request is sent at most (the retries it was made with + 1) times, and
\* when join() has returned no item, re-enqueued retries included, is on
\* the queue or in a worker's hands.
C40_StartDownloaderReturns ==
    /\ []<>(dl.join # "joining")
    /\ [](\A r \in Requests :
             /\ dl.request[r].retries >= 0
             /\ dl.request[r].fetches <= dl.request[r].budget + 1)
    /\ [](dl.join = "returned" => Outstanding = {})

C40_Witness ==
    /\ dl.join = "returned"
    /\ \E r \in Requests :
          /\ dl.request[r].requeued > 0
          /\ dl.request[r].fetches = dl.request[r].budget + 1
=============================================================================
